---- MODULE Spec2Model ----
(***************************************************************************)
(* Padel Stats: point-by-point scoring of a doubles padel match, with the  *)
(* deuce policies (Advantage / Golden / Star Point), set and super         *)
(* tie-breaks, the per-set server rotation and the event log.              *)
(*                                                                         *)
(* The Streamlit session state is one record, st; the helpers of           *)
(* padel_app.py that mutate st.session_state are operators from a session  *)
(* record to the session record they leave behind. Team k of the source    *)
(* (1 or 2) indexes sets/games/pts/tb_pts directly (the source uses k-1).  *)
(***************************************************************************)
EXTENDS Integers, Naturals, Sequences, FiniteSets, TLC

VARIABLES st, log

vars == <<st, log>>

\* ------------------------------------------------------------------ bounds
\* A tie-break is open-ended (win by two): points are submitted only while
\* fewer than MaxTbPuntos tie-break points have been played.
MaxTbPuntos == 24
\* A set won in a tie-break never ends the match, so sets can be won without
\* limit: in a match that is not over, points are submitted only while no team
\* holds MaxSetsEquipo sets.
MaxSetsEquipo == 2
\* The Excel sheet grows without limit: points are submitted only while the
\* sheet of the current file holds fewer than MaxLog events.
MaxLog == 1
\* In the specification that keeps one sheet for the whole session, points are
\* submitted only while the sheet holds fewer than MaxRegistro events.
MaxRegistro == 3
\* In the specification that submits every form, points are submitted only
\* while fewer than MaxPuntosFormulario points of the first game are played.
MaxPuntosFormulario == 2

\* --------------------------------------------------------- configuration
eq1 == <<"Jugador1", "Jugador2">>
eq2 == <<"Jugador3", "Jugador4">>

Range(f) == {f[x] : x \in DOMAIN f}

jugadores == Range(eq1) \cup Range(eq2)

\* The players offered as servers in the pickers of a match: one of each team.
SacadoresPartido == {eq1[1], eq2[1]}

MODOS == {"Advantage", "Golden", "Star Point"}
FORMATOS == {"3 sets", "Super tie-break"}

SAQUE_ESTADOS == {"Correcto", "Primer error", "Doble falta"}
RESULTADOS == {"Winner", "Error forzado", "Error no forzado"}
\* The serve and one representative of the other fourteen shots.
GOLPES == {"Saque", "Otro"}

TB_TARGET_SET == 7
TB_TARGET_SUPER == 11
GAMES_SET == 6

\* ---------------------------------------------------------- general helpers
equipo_de(jugador) ==
    IF jugador \in Range(eq1) THEN 1
    ELSE IF jugador \in Range(eq2) THEN 2
    ELSE 0

opuesto(eq) == IF eq = 1 THEN 2 ELSE IF eq = 2 THEN 1 ELSE 0

companero(actor) ==
    IF actor \in Range(eq1) THEN (IF eq1[1] = actor THEN eq1[2] ELSE eq1[1])
    ELSE IF actor \in Range(eq2) THEN (IF eq2[1] = actor THEN eq2[2] ELSE eq2[1])
    ELSE ""

\* Mutant of ganador_equipo_por_regla: a forced error goes to the team of the
\* player who made it.
ganador_equipo_por_regla_al_actor(resultado, actor, provocador) ==
    IF resultado = "Winner" THEN equipo_de(actor)
    ELSE IF resultado = "Error no forzado" THEN opuesto(equipo_de(actor))
    ELSE IF resultado = "Error forzado" THEN equipo_de(actor)
    ELSE 0

ganador_equipo_por_regla(resultado, actor, provocador) ==
    IF resultado = "Winner" THEN equipo_de(actor)
    ELSE IF resultado = "Error no forzado" THEN opuesto(equipo_de(actor))
    ELSE IF resultado = "Error forzado" THEN equipo_de(provocador)
    ELSE 0

Abs(x) == IF x < 0 THEN -x ELSE x
Max2(a, b) == IF a >= b THEN a ELSE b

\* ------------------------------------------------------------- Star Point
reset_star_game_state(s) ==
    [s EXCEPT !.star_adv_count = 0,
              !.star_golden_active = FALSE,
              !.golden_receiver = ""]

is_star_golden_now(s) ==
    /\ s.modo_deuce = "Star Point"
    /\ ~s.in_tb
    /\ s.pts[1] = 3
    /\ s.pts[2] = 3
    /\ s.adv = 0
    /\ s.star_golden_active

\* ------------------------------------------------- server order of the set
reset_server_order_for_set(s) ==
    [s EXCEPT !.server_order = <<>>,
              !.server_index = 0,
              !.team_first_server = <<"", "">>,
              !.pending_other_team_pick = 0,
              !.need_other_team_pick_now = FALSE,
              !.first_server_of_set = "",
              !.current_server = "",
              !.server_team = 0]

build_full_server_order(s) ==
    LET t1 == s.team_first_server[1]
        t2 == s.team_first_server[2]
        other1 == IF eq1[1] = t1 THEN eq1[2] ELSE eq1[1]
        other2 == IF eq2[1] = t2 THEN eq2[2] ELSE eq2[1]
        first_team == equipo_de(s.first_server_of_set)
    IN  IF t1 = "" \/ t2 = "" THEN s
        ELSE [s EXCEPT !.server_order =
                 IF first_team = 1 THEN <<t1, t2, other1, other2>>
                 ELSE <<t2, t1, other2, other1>>]

set_current_server_from_order(s) ==
    IF s.server_order = <<>> THEN s
    ELSE LET srv == s.server_order[(s.server_index % 4) + 1]
         IN  [s EXCEPT !.current_server = srv,
                       !.server_team = equipo_de(srv)]

\* Mutant of advance_server_game: the index is not wrapped.
advance_server_game_sin_modulo(s) ==
    IF s.server_order = <<>> /\ s.pending_other_team_pick \in {1, 2} THEN s
    ELSE IF s.server_order # <<>>
         THEN set_current_server_from_order(
                  [s EXCEPT !.server_index = s.server_index + 1])
         ELSE s

advance_server_game(s) ==
    IF s.server_order = <<>> /\ s.pending_other_team_pick \in {1, 2} THEN s
    ELSE IF s.server_order # <<>>
         THEN set_current_server_from_order(
                  [s EXCEPT !.server_index = (s.server_index + 1) % 4])
         ELSE s

\* ------------------------------------------------ tie-break server (1,2,2,..)
\* Mutant of tb_server_for_point: the server changes after every point.
tb_server_for_point_cada_punto(tb_point_index, rotation, start_idx) ==
    IF rotation = <<>> THEN ""
    ELSE LET n == IF tb_point_index < 0 THEN 0 ELSE tb_point_index
             turn == n
             idx == (start_idx + turn) % Len(rotation)
         IN  rotation[idx + 1]

tb_server_for_point(tb_point_index, rotation, start_idx) ==
    IF rotation = <<>> THEN ""
    ELSE LET n == IF tb_point_index < 0 THEN 0 ELSE tb_point_index
             turn == IF n = 0 THEN 0 ELSE 1 + ((n - 1) \div 2)
             idx == (start_idx + turn) % Len(rotation)
         IN  rotation[idx + 1]

ensure_tb_current_server(s) ==
    IF ~s.in_tb THEN s
    ELSE LET tb_idx == s.tb_pts[1] + s.tb_pts[2]
             rotation == s.tb_rotation
             start_idx == s.tb_start_idx
         IN  IF rotation = <<>>
             THEN [s EXCEPT !.current_server = "", !.server_team = 0]
             ELSE IF Len(rotation) < 4
             THEN [s EXCEPT !.current_server = rotation[1],
                            !.server_team = equipo_de(rotation[1])]
             ELSE LET srv == tb_server_for_point(tb_idx, rotation, start_idx)
                  IN  [s EXCEPT !.current_server = srv,
                                !.server_team = equipo_de(srv)]

\* ----------------------------------------------------- match / score / TB
\* The fields reset_match leaves untouched are the configuration.
reset_match(s) ==
    reset_server_order_for_set(reset_star_game_state(
        [s EXCEPT !.match_over = FALSE,
                  !.sets = <<0, 0>>,
                  !.games = <<0, 0>>,
                  !.pts = <<0, 0>>,
                  !.adv = 0,
                  !.in_tb = FALSE,
                  !.tb_tipo = "",
                  !.tb_target = 0,
                  !.tb_pts = <<0, 0>>,
                  !.tb_rotation = <<>>,
                  !.tb_start_idx = 0,
                  !.super_tb_first = "",
                  !.super_tb_second = "",
                  !.super_tb_ready = FALSE]))

set_actual(s) == Max2(s.sets[1] + s.sets[2] + 1, 1)

_activar_tb(s, tipo, target) ==
    LET a == reset_star_game_state(
                 [s EXCEPT !.in_tb = TRUE,
                           !.tb_tipo = tipo,
                           !.tb_target = target,
                           !.tb_pts = <<0, 0>>])
        b == IF tipo = "SET"
             THEN IF a.server_order # <<>>
                  THEN [a EXCEPT !.tb_rotation = a.server_order,
                                 !.tb_start_idx = (a.server_index + 1) % 4,
                                 !.super_tb_ready = TRUE]
                  ELSE [a EXCEPT !.tb_rotation = <<>>,
                                 !.tb_start_idx = 0,
                                 !.super_tb_ready = TRUE]
             ELSE IF tipo = "SUPER"
             THEN [a EXCEPT !.tb_rotation = <<>>,
                            !.tb_start_idx = 0,
                            !.super_tb_first = "",
                            !.super_tb_second = "",
                            !.super_tb_ready = FALSE]
             ELSE a
    IN  [b EXCEPT !.current_server = "", !.server_team = 0]

\* Mutant of _terminar_tb_y_aplicar_ganador: the tie-break points and target
\* are left as the tie-break ended.
_terminar_tb_y_aplicar_ganador_deja_tb(s, eq_gana_tb) ==
    LET a == IF s.tb_tipo = "SET"
             THEN [s EXCEPT !.sets[eq_gana_tb] = @ + 1]
             ELSE IF s.tb_tipo = "SUPER"
             THEN [s EXCEPT !.sets[eq_gana_tb] = @ + 1, !.match_over = TRUE]
             ELSE s
    IN  reset_server_order_for_set(reset_star_game_state(
            [a EXCEPT !.games = <<0, 0>>,
                      !.pts = <<0, 0>>,
                      !.adv = 0,
                      !.in_tb = FALSE,
                      !.tb_tipo = "",
                      !.tb_rotation = <<>>,
                      !.tb_start_idx = 0,
                      !.super_tb_first = "",
                      !.super_tb_second = "",
                      !.super_tb_ready = FALSE]))

_terminar_tb_y_aplicar_ganador(s, eq_gana_tb) ==
    LET a == IF s.tb_tipo = "SET"
             THEN [s EXCEPT !.sets[eq_gana_tb] = @ + 1]
             ELSE IF s.tb_tipo = "SUPER"
             THEN [s EXCEPT !.sets[eq_gana_tb] = @ + 1, !.match_over = TRUE]
             ELSE s
    IN  reset_server_order_for_set(reset_star_game_state(
            [a EXCEPT !.games = <<0, 0>>,
                      !.pts = <<0, 0>>,
                      !.adv = 0,
                      !.in_tb = FALSE,
                      !.tb_tipo = "",
                      !.tb_target = 0,
                      !.tb_pts = <<0, 0>>,
                      !.tb_rotation = <<>>,
                      !.tb_start_idx = 0,
                      !.super_tb_first = "",
                      !.super_tb_second = "",
                      !.super_tb_ready = FALSE]))

\* Mutant of _ganar_set_normal: the sets are reset along with the games.
_ganar_set_normal_borra_sets(s, eq_gana_set) ==
    LET a == reset_server_order_for_set(reset_star_game_state(
                 [s EXCEPT !.sets = [<<0, 0>> EXCEPT ![eq_gana_set] = 1],
                           !.games = <<0, 0>>,
                           !.pts = <<0, 0>>,
                           !.adv = 0]))
    IN  IF Max2(a.sets[1], a.sets[2]) >= 2
        THEN [a EXCEPT !.match_over = TRUE] ELSE a

\* Mutant of _ganar_set_normal: only the games of the set's winner are cleared.
_ganar_set_normal_deja_games(s, eq_gana_set) ==
    LET a == reset_server_order_for_set(reset_star_game_state(
                 [s EXCEPT !.sets[eq_gana_set] = @ + 1,
                           !.games[eq_gana_set] = 0,
                           !.pts = <<0, 0>>,
                           !.adv = 0]))
        b == IF a.formato_partido = "3 sets" /\ Max2(a.sets[1], a.sets[2]) >= 2
             THEN [a EXCEPT !.match_over = TRUE] ELSE a
    IN  IF b.formato_partido = "Super tie-break" /\ Max2(b.sets[1], b.sets[2]) >= 2
        THEN [b EXCEPT !.match_over = TRUE] ELSE b

_ganar_set_normal(s, eq_gana_set) ==
    LET a == reset_server_order_for_set(reset_star_game_state(
                 [s EXCEPT !.sets[eq_gana_set] = @ + 1,
                           !.games = <<0, 0>>,
                           !.pts = <<0, 0>>,
                           !.adv = 0]))
        b == IF a.formato_partido = "3 sets" /\ Max2(a.sets[1], a.sets[2]) >= 2
             THEN [a EXCEPT !.match_over = TRUE] ELSE a
    IN  IF b.formato_partido = "Super tie-break" /\ Max2(b.sets[1], b.sets[2]) >= 2
        THEN [b EXCEPT !.match_over = TRUE] ELSE b

_check_activar_super_tb_si_corresponde(s) ==
    IF s.formato_partido # "Super tie-break" THEN s
    ELSE IF s.match_over THEN s
    ELSE IF s.sets = <<1, 1>> THEN _activar_tb(s, "SUPER", TB_TARGET_SUPER)
    ELSE s

\* Mutant of ganar_juego: no set tie-break at 6-6.
ganar_juego_sin_tb(s, eq_gana_game) ==
    LET a == reset_star_game_state(
                 [s EXCEPT !.games[eq_gana_game] = @ + 1,
                           !.pts = <<0, 0>>,
                           !.adv = 0])
        g1 == a.games[1]
        g2 == a.games[2]
    IN  IF (g1 >= GAMES_SET \/ g2 >= GAMES_SET) /\ Abs(g1 - g2) >= 2
        THEN _check_activar_super_tb_si_corresponde(
                 _ganar_set_normal(a, IF g1 > g2 THEN 1 ELSE 2))
        ELSE IF a.server_order = <<>> /\ a.pending_other_team_pick \in {1, 2}
        THEN [a EXCEPT !.need_other_team_pick_now = TRUE,
                       !.current_server = "",
                       !.server_team = 0]
        ELSE advance_server_game(a)

\* Mutant of ganar_juego: the Star Point state of the game is not cleared.
ganar_juego_sin_reset_star(s, eq_gana_game) ==
    LET a == [s EXCEPT !.games[eq_gana_game] = @ + 1,
                       !.pts = <<0, 0>>,
                       !.adv = 0]
        g1 == a.games[1]
        g2 == a.games[2]
    IN  IF g1 = GAMES_SET /\ g2 = GAMES_SET
        THEN _activar_tb(a, "SET", TB_TARGET_SET)
        ELSE IF (g1 >= GAMES_SET \/ g2 >= GAMES_SET) /\ Abs(g1 - g2) >= 2
        THEN _check_activar_super_tb_si_corresponde(
                 _ganar_set_normal(a, IF g1 > g2 THEN 1 ELSE 2))
        ELSE IF a.server_order = <<>> /\ a.pending_other_team_pick \in {1, 2}
        THEN [a EXCEPT !.need_other_team_pick_now = TRUE,
                       !.current_server = "",
                       !.server_team = 0]
        ELSE advance_server_game(a)

ganar_juego(s, eq_gana_game) ==
    LET a == reset_star_game_state(
                 [s EXCEPT !.games[eq_gana_game] = @ + 1,
                           !.pts = <<0, 0>>,
                           !.adv = 0])
        g1 == a.games[1]
        g2 == a.games[2]
    IN  IF g1 = GAMES_SET /\ g2 = GAMES_SET
        THEN _activar_tb(a, "SET", TB_TARGET_SET)
        ELSE IF (g1 >= GAMES_SET \/ g2 >= GAMES_SET) /\ Abs(g1 - g2) >= 2
        THEN _check_activar_super_tb_si_corresponde(
                 _ganar_set_normal(a, IF g1 > g2 THEN 1 ELSE 2))
        ELSE IF a.server_order = <<>> /\ a.pending_other_team_pick \in {1, 2}
        THEN [a EXCEPT !.need_other_team_pick_now = TRUE,
                       !.current_server = "",
                       !.server_team = 0]
        ELSE advance_server_game(a)

\* Mutant of the ordinary point: the fourth point does not win the game.
sumar_punto_sin_juego(s, i) == [s EXCEPT !.pts[i] = @ + 1]

\* Mutant of the ordinary point: the serve moves on after every point.
sumar_punto_rota(s, i) ==
    LET j == 3 - i
        a == [s EXCEPT !.pts[i] = @ + 1]
    IN  IF a.pts[i] >= 4 /\ (a.pts[i] - a.pts[j]) >= 2
        THEN ganar_juego(a, i) ELSE advance_server_game(a)

\* A point of the ordinary game once the deuce branches have been passed:
\* pts[i] += 1, and the game is won at 4 or more with a lead of 2.
sumar_punto(s, i) ==
    LET j == 3 - i
        a == [s EXCEPT !.pts[i] = @ + 1]
    IN  IF a.pts[i] >= 4 /\ (a.pts[i] - a.pts[j]) >= 2
        THEN ganar_juego(a, i) ELSE a

\* Mutant of the tie-break branch: the lead of two is not asked for.
puntoTiebreak_sin_ventaja(s, i) ==
    LET a == [s EXCEPT !.tb_pts[i] = @ + 1]
        tgt == a.tb_target
    IN  IF a.tb_pts[1] >= tgt \/ a.tb_pts[2] >= tgt
        THEN _terminar_tb_y_aplicar_ganador(a, i) ELSE a

\* Mutant of the tie-break branch: the tie-break goes to the team that did not
\* score its last point.
puntoTiebreak_al_otro(s, i) ==
    LET a == [s EXCEPT !.tb_pts[i] = @ + 1]
        tgt == a.tb_target
    IN  IF (a.tb_pts[1] >= tgt \/ a.tb_pts[2] >= tgt)
           /\ Abs(a.tb_pts[1] - a.tb_pts[2]) >= 2
        THEN _terminar_tb_y_aplicar_ganador(a, 3 - i) ELSE a

\* The tie-break branch of actualizar_marcador.
puntoTiebreak(s, i) ==
    LET a == [s EXCEPT !.tb_pts[i] = @ + 1]
        tgt == a.tb_target
    IN  IF (a.tb_pts[1] >= tgt \/ a.tb_pts[2] >= tgt)
           /\ Abs(a.tb_pts[1] - a.tb_pts[2]) >= 2
        THEN _terminar_tb_y_aplicar_ganador(a, i) ELSE a

\* Mutant of the Golden branch: 3-3 is not decided by the next point.
puntoGolden_sin_oro(s, i) == sumar_punto(s, i)

\* The Golden branch of actualizar_marcador.
puntoGolden(s, i) ==
    LET j == 3 - i
    IN  IF s.pts[i] = 3 /\ s.pts[j] = 3 THEN ganar_juego(s, i)
        ELSE sumar_punto(s, i)

\* Mutant of the Star Point branch: the equalizing point clears the counter too.
puntoStar_borra_contador(s, i) ==
    LET j == 3 - i
    IN  IF is_star_golden_now(s) THEN ganar_juego(s, i)
        ELSE IF s.pts[i] = 3 /\ s.pts[j] = 3 /\ s.adv = 0
        THEN LET a == [s EXCEPT !.adv = i, !.star_adv_count = @ + 1]
             IN  IF a.star_adv_count >= 2
                 THEN [a EXCEPT !.star_golden_active = TRUE] ELSE a
        ELSE IF s.pts[i] = 3 /\ s.pts[j] = 3 /\ s.adv # 0
        THEN IF s.adv = i
             THEN ganar_juego([s EXCEPT !.adv = 0], i)
             ELSE [s EXCEPT !.adv = 0, !.star_adv_count = 0]
        ELSE sumar_punto(s, i)

\* Mutant of the Star Point branch: the golden point is played as one more
\* deuce.
puntoStar_sin_oro(s, i) ==
    LET j == 3 - i
    IN  IF s.pts[i] = 3 /\ s.pts[j] = 3 /\ s.adv = 0
        THEN LET a == [s EXCEPT !.adv = i, !.star_adv_count = @ + 1]
             IN  IF a.star_adv_count >= 2
                 THEN [a EXCEPT !.star_golden_active = TRUE] ELSE a
        ELSE IF s.pts[i] = 3 /\ s.pts[j] = 3 /\ s.adv # 0
        THEN IF s.adv = i
             THEN ganar_juego([s EXCEPT !.adv = 0], i)
             ELSE [s EXCEPT !.adv = 0]
        ELSE sumar_punto(s, i)

\* The Star Point branch of actualizar_marcador.
puntoStar(s, i) ==
    LET j == 3 - i
    IN  IF is_star_golden_now(s) THEN ganar_juego(s, i)
        ELSE IF s.pts[i] = 3 /\ s.pts[j] = 3 /\ s.adv = 0
        THEN LET a == [s EXCEPT !.adv = i, !.star_adv_count = @ + 1]
             IN  IF a.star_adv_count >= 2
                 THEN [a EXCEPT !.star_golden_active = TRUE] ELSE a
        ELSE IF s.pts[i] = 3 /\ s.pts[j] = 3 /\ s.adv # 0
        THEN IF s.adv = i
             THEN ganar_juego([s EXCEPT !.adv = 0], i)
             ELSE [s EXCEPT !.adv = 0]
        ELSE sumar_punto(s, i)

\* Mutant of the Advantage branch: a point against the advantage hands the
\* advantage over instead of clearing it.
puntoAdvantage_pasa_ventaja(s, i) ==
    LET j == 3 - i
    IN  IF s.pts[i] = 3 /\ s.pts[j] = 3
        THEN IF s.adv = 0 THEN [s EXCEPT !.adv = i]
             ELSE IF s.adv = i THEN ganar_juego([s EXCEPT !.adv = 0], i)
             ELSE [s EXCEPT !.adv = i]
        ELSE sumar_punto(s, i)

\* The Advantage branch of actualizar_marcador.
puntoAdvantage(s, i) ==
    LET j == 3 - i
    IN  IF s.pts[i] = 3 /\ s.pts[j] = 3
        THEN IF s.adv = 0 THEN [s EXCEPT !.adv = i]
             ELSE IF s.adv = i THEN ganar_juego([s EXCEPT !.adv = 0], i)
             ELSE [s EXCEPT !.adv = 0]
        ELSE sumar_punto(s, i)

actualizar_marcador(s, eq_gana_punto) ==
    IF s.match_over THEN s
    ELSE IF s.in_tb THEN puntoTiebreak(s, eq_gana_punto)
    ELSE IF s.modo_deuce = "Golden" THEN puntoGolden(s, eq_gana_punto)
    ELSE IF s.modo_deuce = "Star Point" THEN puntoStar(s, eq_gana_punto)
    ELSE puntoAdvantage(s, eq_gana_punto)

\* ------------------------------------------------------------ score texts
PTS_TEXT(p) ==
    IF p = 0 THEN "0" ELSE IF p = 1 THEN "15" ELSE IF p = 2 THEN "30"
    ELSE IF p = 3 THEN "40" ELSE ToString(p)

puntos_texto(s, eq) ==
    IF s.in_tb THEN ToString(s.tb_pts[eq])
    ELSE LET p == s.pts[eq]
             o == s.pts[3 - eq]
         IN  IF s.modo_deuce \in {"Advantage", "Star Point"} /\ p = 3 /\ o = 3
             THEN (IF s.adv = eq THEN "AD" ELSE "40")
             ELSE PTS_TEXT(p)

\* ------------------------------------------------- point: form + validation
\* The form of a point (the sel_* fields of the session); "" is an empty field.
Formularios ==
    [saque_estado : {"", "Primer error", "Doble falta"},
     resultado : RESULTADOS \cup {""},
     golpe : GOLPES \cup {""},
     actor : jugadores \cup {""},
     provocador : jugadores \cup {""},
     asistencia : {"", "Sí", "No"},
     asistente : jugadores \cup {""}]

FormularioVacio ==
    [saque_estado |-> "", resultado |-> "", golpe |-> "", actor |-> "",
     provocador |-> "", asistencia |-> "", asistente |-> ""]

\* The forms of a match as it is usually keyed in: a double fault (the point
\* goes against the server), a winner off the serve (the point goes to the
\* server's team) and the empty form (rejected).
FormulariosPartido ==
    {[FormularioVacio EXCEPT !.saque_estado = "Doble falta"],
     [FormularioVacio EXCEPT !.resultado = "Winner", !.golpe = "Saque"],
     FormularioVacio}

reset_punto(s) == [s EXCEPT !.golden_receiver = ""]

\* validar_punto from the serve state on: the fields of the form.
validar_formulario(f) ==
    IF f.saque_estado # "" /\ f.saque_estado \notin SAQUE_ESTADOS
    THEN "Estado del saque inválido."
    ELSE IF f.saque_estado = "Doble falta" THEN ""
    ELSE IF f.resultado \notin RESULTADOS THEN "Falta seleccionar el resultado."
    ELSE IF f.golpe = "" THEN "Falta seleccionar el golpe."
    ELSE IF f.resultado = "Winner" /\ f.golpe = "Saque" THEN ""
    ELSE IF f.resultado = "Error no forzado" /\ f.golpe = "Saque" THEN ""
    ELSE IF f.resultado = "Winner"
    THEN IF f.actor \notin jugadores THEN "Falta seleccionar Actor."
         ELSE IF f.asistencia \notin {"Sí", "No"}
         THEN "En Winner, indica si hubo asistencia (Sí/No)."
         ELSE IF f.asistencia = "Sí"
         THEN IF f.asistente \notin jugadores THEN "Asistente inválido."
              ELSE IF f.asistente = f.actor
              THEN "Asistente no puede ser igual al Actor."
              ELSE IF equipo_de(f.asistente) # equipo_de(f.actor)
              THEN "Asistente debe ser del mismo equipo del Actor."
              ELSE ""
         ELSE ""
    ELSE IF f.resultado = "Error no forzado"
    THEN IF f.actor \notin jugadores THEN "Falta seleccionar Actor." ELSE ""
    ELSE IF f.resultado = "Error forzado"
    THEN IF f.actor \notin jugadores
         THEN "Falta seleccionar Actor (quién se equivocó)."
         ELSE IF f.provocador \notin jugadores
         THEN "Falta seleccionar Provocador (quién forzó)."
         ELSE IF equipo_de(f.provocador) = equipo_de(f.actor)
         THEN "Provocador debe ser del equipo contrario al Actor."
         ELSE ""
    ELSE ""

\* Mutant of validar_punto: the golden receiver is not asked for.
validar_punto_sin_receptor(s, f) ==
    IF s.current_server = "" THEN "Falta sacador. Elígelo en el marcador."
    ELSE validar_formulario(f)

\* The error message of validar_punto, "" where the source returns None.
validar_punto(s, f) ==
    IF s.current_server = "" THEN "Falta sacador. Elígelo en el marcador."
    ELSE IF is_star_golden_now(s) /\ s.golden_receiver = ""
    THEN "Falta seleccionar receptor para el Golden Point (Star Point)."
    ELSE validar_formulario(f)

make_row_base(s) ==
    [Set |-> set_actual(s),
     Games_Eq1 |-> s.games[1],
     Games_Eq2 |-> s.games[2],
     Pts_Eq1 |-> puntos_texto(s, 1),
     Pts_Eq2 |-> puntos_texto(s, 2),
     TieBreak |-> s.in_tb,
     TB_Tipo |-> IF s.in_tb THEN s.tb_tipo ELSE ""]

\* Mutant of clasificar: the double fault is given to the server's team.
clasificar_df_al_sacador(s, f) ==
    LET saca == s.current_server
        saque_estado == IF f.saque_estado = "" THEN "Correcto" ELSE f.saque_estado
        res == f.resultado
        golpe == f.golpe
        deSaque == (res = "Winner" /\ golpe = "Saque")
                   \/ (res = "Error no forzado" /\ golpe = "Saque")
        actor_final == IF deSaque THEN saca ELSE f.actor
        prov_final == IF deSaque THEN ""
                      ELSE IF res = "Error forzado" THEN f.provocador ELSE ""
    IN  IF saque_estado = "Doble falta"
        THEN [Saca |-> saca, SaqueEstado |-> saque_estado,
              Resultado |-> "Error no forzado", Golpe |-> "Saque",
              JugadorActor |-> saca, JugadorProvocador |-> "",
              Asistencia |-> "", Asistente |-> "",
              EquipoGanadorPunto |-> equipo_de(saca)]
        ELSE [Saca |-> saca, SaqueEstado |-> saque_estado,
              Resultado |-> res, Golpe |-> golpe,
              JugadorActor |-> actor_final, JugadorProvocador |-> prov_final,
              Asistencia |-> IF deSaque THEN ""
                             ELSE IF res = "Winner" THEN f.asistencia ELSE "",
              Asistente |-> IF deSaque THEN ""
                            ELSE IF res = "Winner" /\ f.asistencia = "Sí"
                                 THEN f.asistente ELSE "",
              EquipoGanadorPunto |->
                  ganador_equipo_por_regla(res, actor_final, prov_final)]

\* Mutant of clasificar: the actor of a point off the serve is the one of the
\* form.
clasificar_actor_del_formulario(s, f) ==
    LET saca == s.current_server
        saque_estado == IF f.saque_estado = "" THEN "Correcto" ELSE f.saque_estado
        res == f.resultado
        golpe == f.golpe
        deSaque == (res = "Winner" /\ golpe = "Saque")
                   \/ (res = "Error no forzado" /\ golpe = "Saque")
        actor_final == f.actor
        prov_final == IF deSaque THEN ""
                      ELSE IF res = "Error forzado" THEN f.provocador ELSE ""
    IN  IF saque_estado = "Doble falta"
        THEN [Saca |-> saca, SaqueEstado |-> saque_estado,
              Resultado |-> "Error no forzado", Golpe |-> "Saque",
              JugadorActor |-> saca, JugadorProvocador |-> "",
              Asistencia |-> "", Asistente |-> "",
              EquipoGanadorPunto |-> opuesto(equipo_de(saca))]
        ELSE [Saca |-> saca, SaqueEstado |-> saque_estado,
              Resultado |-> res, Golpe |-> golpe,
              JugadorActor |-> actor_final, JugadorProvocador |-> prov_final,
              Asistencia |-> IF deSaque THEN ""
                             ELSE IF res = "Winner" THEN f.asistencia ELSE "",
              Asistente |-> IF deSaque THEN ""
                            ELSE IF res = "Winner" /\ f.asistencia = "Sí"
                                 THEN f.asistente ELSE "",
              EquipoGanadorPunto |->
                  ganador_equipo_por_regla(res, actor_final, prov_final)]

\* The normalised fields of the point: actor, provoker, assist and winner.
clasificar(s, f) ==
    LET saca == s.current_server
        saque_estado == IF f.saque_estado = "" THEN "Correcto" ELSE f.saque_estado
        res == f.resultado
        golpe == f.golpe
        deSaque == (res = "Winner" /\ golpe = "Saque")
                   \/ (res = "Error no forzado" /\ golpe = "Saque")
        actor_final == IF deSaque THEN saca ELSE f.actor
        prov_final == IF deSaque THEN ""
                      ELSE IF res = "Error forzado" THEN f.provocador ELSE ""
    IN  IF saque_estado = "Doble falta"
        THEN [Saca |-> saca, SaqueEstado |-> saque_estado,
              Resultado |-> "Error no forzado", Golpe |-> "Saque",
              JugadorActor |-> saca, JugadorProvocador |-> "",
              Asistencia |-> "", Asistente |-> "",
              EquipoGanadorPunto |-> opuesto(equipo_de(saca))]
        ELSE [Saca |-> saca, SaqueEstado |-> saque_estado,
              Resultado |-> res, Golpe |-> golpe,
              JugadorActor |-> actor_final, JugadorProvocador |-> prov_final,
              Asistencia |-> IF deSaque THEN ""
                             ELSE IF res = "Winner" THEN f.asistencia ELSE "",
              Asistente |-> IF deSaque THEN ""
                            ELSE IF res = "Winner" /\ f.asistencia = "Sí"
                                 THEN f.asistente ELSE "",
              EquipoGanadorPunto |->
                  ganador_equipo_por_regla(res, actor_final, prov_final)]

\* Mutant of insertar_evento_abajo: the new event goes on top of the sheet.
insertar_evento_arriba(l, row) == <<row>> \o l

insertar_evento_abajo(l, row) == Append(l, row)

\* Mutant of registrar_evento_validado: a rejected form is cleared, and the
\* golden receiver with it.
registrar_evento_validado_limpia(s, l, f) ==
    LET err == validar_punto(s, f)
        c == clasificar(s, f)
        eq_ganador == c.EquipoGanadorPunto
    IN  IF err # "" THEN [st |-> reset_punto(s), log |-> l, msg |-> err]
        ELSE IF eq_ganador \notin {1, 2}
        THEN [st |-> reset_punto(s), log |-> l,
              msg |-> "No pude determinar el equipo ganador."]
        ELSE LET a == actualizar_marcador(s, eq_ganador)
                 row == [base |-> make_row_base(a),
                         punto |-> c,
                         GoldenReceiver |-> IF is_star_golden_now(a)
                                            THEN a.golden_receiver ELSE ""]
             IN  [st |-> reset_punto(a),
                  log |-> insertar_evento_abajo(l, row),
                  msg |-> "ok"]

\* registrar_evento past its match_over check: validation, classification,
\* score update, the row of the point and the reset of the form.
registrar_evento_validado(s, l, f) ==
    LET err == validar_punto(s, f)
        c == clasificar(s, f)
        eq_ganador == c.EquipoGanadorPunto
    IN  IF err # "" THEN [st |-> s, log |-> l, msg |-> err]
        ELSE IF eq_ganador \notin {1, 2}
        THEN [st |-> s, log |-> l,
              msg |-> "No pude determinar el equipo ganador."]
        ELSE LET a == actualizar_marcador(s, eq_ganador)
                 row == [base |-> make_row_base(a),
                         punto |-> c,
                         GoldenReceiver |-> IF is_star_golden_now(a)
                                            THEN a.golden_receiver ELSE ""]
             IN  [st |-> reset_punto(a),
                  log |-> insertar_evento_abajo(l, row),
                  msg |-> "ok"]

\* Mutant of registrar_evento: the match_over check at its top is missing.
registrar_evento_sin_match_over(s, l, f) == registrar_evento_validado(s, l, f)

\* registrar_evento on session s and sheet l with form f: the session and the
\* sheet it leaves, and the message it shows ("ok" for st.success).
registrar_evento(s, l, f) ==
    IF s.match_over
    THEN [st |-> s, log |-> l, msg |-> "El partido ya terminó."]
    ELSE registrar_evento_validado(s, l, f)

\* ------------------------------------------------------------ the session
\* The session state after the Init block (reset_match, reset_punto) under a
\* configuration chosen in the sidebar.
SesionInicial(modo, formato) ==
    reset_punto(reset_match(
        [modo_deuce |-> modo, formato_partido |-> formato,
         match_over |-> FALSE, sets |-> <<0, 0>>, games |-> <<0, 0>>,
         pts |-> <<0, 0>>, adv |-> 0, in_tb |-> FALSE, tb_tipo |-> "",
         tb_target |-> 0, tb_pts |-> <<0, 0>>, tb_rotation |-> <<>>,
         tb_start_idx |-> 0, super_tb_first |-> "", super_tb_second |-> "",
         super_tb_ready |-> FALSE, star_adv_count |-> 0,
         star_golden_active |-> FALSE, golden_receiver |-> "",
         server_order |-> <<>>, server_index |-> 0,
         team_first_server |-> <<"", "">>, pending_other_team_pick |-> 0,
         need_other_team_pick_now |-> FALSE, first_server_of_set |-> "",
         current_server |-> "", server_team |-> 0]))

\* Every run of the script refreshes the tie-break server before drawing.
inicio_script(s) == IF s.in_tb THEN ensure_tb_current_server(s) ELSE s

\* The run stops (st.stop) before the point form when a server is missing.
falta_sacador_stop(s) ==
    /\ ~s.in_tb
    /\ s.current_server = ""
    /\ ~(s.need_other_team_pick_now /\ s.pending_other_team_pick \in {1, 2})

pide_super_tb_first(s) ==
    /\ s.in_tb
    /\ s.tb_tipo = "SUPER"
    /\ s.tb_pts[1] + s.tb_pts[2] = 0
    /\ s.super_tb_first = ""

\* Mutant of the second-server gate of the super tie-break: the run never
\* stops for the second server.
pide_super_tb_second_nunca(s) == FALSE

pide_super_tb_second(s) ==
    /\ s.in_tb
    /\ s.tb_tipo = "SUPER"
    /\ s.tb_pts[1] + s.tb_pts[2] >= 1
    /\ s.super_tb_first # ""
    /\ s.super_tb_second = ""

\* The run reaches the point form and its save button.
formulario_visible(s) ==
    /\ ~falta_sacador_stop(s)
    /\ ~pide_super_tb_first(s)
    /\ ~pide_super_tb_second(s)

Init ==
    /\ \E modo \in MODOS, formato \in FORMATOS : st = SesionInicial(modo, formato)
    /\ log = <<>>

\* "Elegir sacador (Game 1)": shown whenever no server is set outside a TB.
ElegirSacadorGame1(elegido) ==
    LET s == inicio_script(st)
        t == equipo_de(elegido)
    IN  /\ ~s.in_tb
        /\ s.current_server = ""
        /\ st' = inicio_script(reset_punto(
                     [s EXCEPT !.current_server = elegido,
                               !.server_team = t,
                               !.first_server_of_set = elegido,
                               !.team_first_server[t] = elegido,
                               !.pending_other_team_pick = opuesto(t),
                               !.need_other_team_pick_now = FALSE,
                               !.server_index = 0]))
        /\ UNCHANGED log

\* "Sacador Equipo k (Game 2)": the first server of the other team.
ElegirSacadorGame2(elegido2) ==
    LET s == inicio_script(st)
        pending_team == s.pending_other_team_pick
    IN  /\ ~s.in_tb
        /\ ~falta_sacador_stop(s)
        /\ s.need_other_team_pick_now
        /\ pending_team \in {1, 2}
        /\ elegido2 \in Range(IF pending_team = 1 THEN eq1 ELSE eq2)
        /\ LET a == build_full_server_order(
                        [s EXCEPT !.team_first_server[pending_team] = elegido2])
               b == set_current_server_from_order([a EXCEPT !.server_index = 1])
           IN  st' = inicio_script(reset_punto(
                         [b EXCEPT !.pending_other_team_pick = 0,
                                   !.need_other_team_pick_now = FALSE]))
        /\ UNCHANGED log

\* Super tie-break, first server: any player, before the first point.
ElegirSuperTbFirst(p) ==
    LET s == inicio_script(st)
    IN  /\ ~falta_sacador_stop(s)
        /\ pide_super_tb_first(s)
        /\ st' = [s EXCEPT !.super_tb_first = p,
                           !.tb_rotation = <<p>>,
                           !.tb_start_idx = 0]
        /\ UNCHANGED log

\* Super tie-break, second server: a player of the other team, from point 1.
ElegirSuperTbSecond(p) ==
    LET s == inicio_script(st)
        team_first == equipo_de(s.super_tb_first)
    IN  /\ ~falta_sacador_stop(s)
        /\ ~pide_super_tb_first(s)
        /\ pide_super_tb_second(s)
        /\ p \in Range(IF team_first = 1 THEN eq2 ELSE eq1)
        /\ st' = [s EXCEPT !.super_tb_second = p,
                           !.tb_rotation = <<s.super_tb_first, p,
                                             companero(s.super_tb_first),
                                             companero(p)>>,
                           !.tb_start_idx = 0,
                           !.super_tb_ready = TRUE]
        /\ UNCHANGED log

\* "Receptor (Golden)": a player of the receiving team, or cleared.
ElegirReceptorGolden(p) ==
    LET s == inicio_script(st)
        receiving_team == opuesto(equipo_de(s.current_server))
    IN  /\ formulario_visible(s)
        /\ is_star_golden_now(s)
        /\ p \in Range(IF receiving_team = 1 THEN eq1 ELSE eq2) \cup {""}
        /\ p # s.golden_receiver
        /\ st' = [s EXCEPT !.golden_receiver = p]
        /\ UNCHANGED log

\* "Guardar punto" / "Guardar doble falta": the run reaches the button and
\* calls registrar_evento with the form as it stands.
BotonGuardar(f) ==
    LET s == inicio_script(st)
        r == registrar_evento(s, log, f)
    IN  /\ formulario_visible(s)
        /\ st' = r.st
        /\ log' = r.log

\* The save button within the bounds of a match.
GuardarPunto(f) ==
    LET s == inicio_script(st)
    IN  /\ s.tb_pts[1] + s.tb_pts[2] < MaxTbPuntos
        /\ s.match_over \/ Max2(s.sets[1], s.sets[2]) < MaxSetsEquipo
        /\ Len(log) < MaxLog
        /\ BotonGuardar(f)

\* Any other widget of the page: the script runs again.
Rerun ==
    /\ st' = inicio_script(st)
    /\ st' # st
    /\ UNCHANGED log

\* "Reset partido".
ResetPartido ==
    /\ st' = inicio_script(reset_punto(reset_match(st)))
    /\ UNCHANGED log

\* The file name in the sidebar changes: the events go to another, new file.
NuevoArchivo ==
    /\ log # <<>>
    /\ log' = <<>>
    /\ st' = inicio_script(st)

Next ==
    \/ \E p \in SacadoresPartido : ElegirSacadorGame1(p)
    \/ \E p \in SacadoresPartido : ElegirSacadorGame2(p)
    \/ \E p \in SacadoresPartido : ElegirSuperTbFirst(p)
    \/ \E p \in SacadoresPartido : ElegirSuperTbSecond(p)
    \/ \E p \in jugadores \cup {""} : ElegirReceptorGolden(p)
    \/ \E f \in FormulariosPartido : GuardarPunto(f)
    \/ Rerun
    \/ ResetPartido
    \/ NuevoArchivo

Spec == Init /\ [][Next]_vars

\* The first set of a match: the steps of Next up to the point that wins the
\* set (the super tie-break pickers cannot come up before a set is won).
NextPrimerSet ==
    \/ \E p \in SacadoresPartido : ElegirSacadorGame1(p)
    \/ \E p \in SacadoresPartido : ElegirSacadorGame2(p)
    \/ \E p \in jugadores \cup {""} : ElegirReceptorGolden(p)
    \/ \E f \in FormulariosPartido : st.sets = <<0, 0>> /\ GuardarPunto(f)
    \/ Rerun
    \/ ResetPartido
    \/ NuevoArchivo

SpecPrimerSet == Init /\ [][NextPrimerSet]_vars

\* The sidebar selectors "Modo en 40-40" / "Formato de partido" change: every
\* run of the script copies the selection into the session, and nothing else.
CambiarConfiguracion(modo, formato) ==
    /\ <<modo, formato>> # <<st.modo_deuce, st.formato_partido>>
    /\ st' = inicio_script([st EXCEPT !.modo_deuce = modo,
                                      !.formato_partido = formato])
    /\ UNCHANGED log

\* The first set of a match during which the configuration may be changed.
NextConfiguracion ==
    \/ NextPrimerSet
    \/ \E modo \in MODOS, formato \in FORMATOS :
          CambiarConfiguracion(modo, formato)

SpecConfiguracion == Init /\ [][NextConfiguracion]_vars

\* The save button while the sheet of the session has room.
GuardarEnRegistro(f) ==
    /\ Len(log) < MaxRegistro
    /\ BotonGuardar(f)

\* The first points of a session that writes all its events to one file
\* (fewer points than a game takes, so that the Game 2 picker never comes up).
NextRegistro ==
    \/ \E p \in jugadores : ElegirSacadorGame1(p)
    \/ \E f \in FormulariosPartido : GuardarEnRegistro(f)
    \/ ResetPartido

SpecRegistro == Init /\ [][NextRegistro]_vars

\* The save button with any form, in the first points of a match, each of
\* them saved to the empty sheet of a new file.
GuardarFormulario ==
    /\ st.sets = <<0, 0>>
    /\ st.games = <<0, 0>>
    /\ st.pts[1] + st.pts[2] < MaxPuntosFormulario
    /\ log = <<>>
    /\ \E f \in Formularios : GuardarPunto(f)

\* The first points of a match, with every way of filling in the form.
NextFormulario ==
    \/ \E p \in jugadores : ElegirSacadorGame1(p)
    \/ GuardarFormulario
    \/ ResetPartido
    \/ NuevoArchivo

SpecFormulario == Init /\ [][NextFormulario]_vars

\* ------------------------------------------------------ steps of a point
\* The step is a click on the save button with form f that registrar_evento
\* accepts (st.success) / rejects (st.warning, st.error).
Acepta(f) ==
    /\ GuardarPunto(f)
    /\ registrar_evento(inicio_script(st), log, f).msg = "ok"

Rechaza(f) ==
    /\ GuardarPunto(f)
    /\ registrar_evento(inicio_script(st), log, f).msg # "ok"

\* The team the accepted form f gives the point to.
Ganador(f) == clasificar(inicio_script(st), f).EquipoGanadorPunto

\* Team i has won the game in progress in session a, leaving session b: the
\* points start again and i has one more game, or one more set when the game
\* closed the set.
JuegoGanado(a, b, i) ==
    /\ b.pts = <<0, 0>>
    /\ b.adv = 0
    /\ \/ b.games[i] = a.games[i] + 1 /\ b.games[3 - i] = a.games[3 - i]
          /\ b.sets = a.sets
       \/ b.sets[i] = a.sets[i] + 1 /\ b.sets[3 - i] = a.sets[3 - i]
          /\ b.games = <<0, 0>>

\* The game in progress goes on from a to b: no game or set is won.
JuegoAbierto(a, b) == b.games = a.games /\ b.sets = a.sets /\ ~b.in_tb

\* ------------------------------------------------------------------ C1
\* C1: once match_over is set, every point submission is rejected: the click
\* shows no success, appends no event and leaves the whole session (sets,
\* games, points, tie-break and rotation state) as it was.
C1_MatchOverTerminal ==
    [][st.match_over =>
          \A f \in FormulariosPartido :
              /\ registrar_evento(inicio_script(st), log, f).msg # "ok"
              /\ GuardarPunto(f) => (st' = st /\ log' = log)]_vars

\* A finished match in which a server has been picked again, so that the point
\* form and its save button are on the page.
C1_Witness ==
    /\ st.match_over
    /\ st.current_server # ""
    /\ formulario_visible(inicio_script(st))
    /\ Len(log) < MaxLog

\* ------------------------------------------------------------------ C2
\* C2: in every reachable state a team that holds two or more sets has ended
\* the match (match_over), whether the set was won on games or in a set
\* tie-break, and no team holds more than two sets.
C2_TwoSetsEndMatch ==
    /\ Max2(st.sets[1], st.sets[2]) >= 2 => st.match_over
    /\ Max2(st.sets[1], st.sets[2]) <= 2

\* ------------------------------------------------------------------ C3
\* C3: the super tie-break (target 11) is active exactly while the sets stand
\* at 1-1 under the "Super tie-break" format, however the 1-1 was reached,
\* and never under "3 sets" or at another set score.
C3_SuperTbIffOneAll ==
    (st.in_tb /\ st.tb_tipo = "SUPER" /\ st.tb_target = TB_TARGET_SUPER)
        <=> (st.formato_partido = "Super tie-break" /\ st.sets = <<1, 1>>)

\* ------------------------------------------------------------------ C4
\* C4: the set tie-break (target 7) is active exactly while the games stand at
\* 6-6, and no team ever holds more than 6 games: a set is won on games by a
\* team with 6 games and a lead of two.
C4_SetTbIffSixAll ==
    /\ (st.in_tb /\ st.tb_tipo = "SET") <=> (st.games = <<GAMES_SET, GAMES_SET>>)
    /\ st.in_tb /\ st.tb_tipo = "SET" => st.tb_target = TB_TARGET_SET
    /\ st.games[1] <= GAMES_SET /\ st.games[2] <= GAMES_SET
    /\ st.games # <<GAMES_SET, GAMES_SET>> => Abs(st.games[1] - st.games[2]) <= 1
                                              \/ Max2(st.games[1], st.games[2]) < GAMES_SET

\* A set tie-break in progress at 6-6.
C4_Witness ==
    /\ st.in_tb
    /\ st.tb_tipo = "SET"
    /\ st.games = <<GAMES_SET, GAMES_SET>>
    /\ st.tb_pts[1] + st.tb_pts[2] > 0

\* ------------------------------------------------------------------ C5
\* The tie-break score a with one more point for team i.
TbTras(a, i) == [a EXCEPT ![i] = @ + 1]

\* Some team has reached the target with a lead of two.
TbGanado(a, target) ==
    (a[1] >= target \/ a[2] >= target) /\ Abs(a[1] - a[2]) >= 2

\* C5: an accepted tie-break point ends the tie-break (the set goes to its
\* scorer) exactly when after it a team has target points or more and leads by
\* two; otherwise the tie-break stays open with the point counted.
C5_TiebreakEnds ==
    [][st.in_tb =>
          \A f \in FormulariosPartido :
              Acepta(f) =>
                  LET i == Ganador(f)
                      tras == TbTras(st.tb_pts, i)
                  IN  IF TbGanado(tras, st.tb_target)
                      THEN /\ ~st'.in_tb
                           /\ st'.sets[i] = st.sets[i] + 1
                           /\ st'.sets[3 - i] = st.sets[3 - i]
                      ELSE /\ st'.in_tb
                           /\ st'.tb_pts = tras
                           /\ st'.tb_tipo = st.tb_tipo
                           /\ st'.tb_target = st.tb_target
                           /\ st'.sets = st.sets]_vars

\* A set tie-break that is still open at 7-6.
C5_Witness ==
    /\ st.in_tb
    /\ st.tb_tipo = "SET"
    /\ st.tb_target = TB_TARGET_SET
    /\ st.tb_pts = <<7, 6>>

\* ------------------------------------------------------------------ C6
\* The session after the points of the teams in seq, in order, from s.
RECURSIVE Jugar(_, _)
Jugar(s, seq) ==
    IF seq = <<>> THEN s
    ELSE Jugar(actualizar_marcador(s, Head(seq)), Tail(seq))

\* C6: under Advantage, at 3-3 the scorer gains the advantage when nobody holds
\* it, wins the game when it holds it, and clears it when the other team holds
\* it; below 3-3 a team at 40 that scores wins the game. From 0-0 the points
\* A,B,A,B,A,B,A leave the game open with advantage A, any further alternation
\* keeps it open, two points in a row from deuce close it, and A,A,A,A wins the
\* game.
C6_Advantage ==
    [][st.modo_deuce = "Advantage" /\ ~st.in_tb /\ ~st.match_over =>
          /\ \A f \in FormulariosPartido :
                Acepta(f) =>
                    LET i == Ganador(f)
                    IN  IF st.pts = <<3, 3>>
                        THEN IF st.adv = 0
                             THEN /\ st'.adv = i
                                  /\ st'.pts = st.pts
                                  /\ JuegoAbierto(st, st')
                             ELSE IF st.adv = i
                             THEN JuegoGanado(st, st', i)
                             ELSE /\ st'.adv = 0
                                  /\ st'.pts = <<3, 3>>
                                  /\ JuegoAbierto(st, st')
                        ELSE IF st.pts[i] = 3
                        THEN JuegoGanado(st, st', i)
                        ELSE /\ st'.pts = [st.pts EXCEPT ![i] = @ + 1]
                             /\ st'.adv = 0
                             /\ JuegoAbierto(st, st')
          /\ st.pts = <<0, 0>> =>
                LET s7 == Jugar(st, <<1, 2, 1, 2, 1, 2, 1>>)
                IN  /\ s7.pts = <<3, 3>> /\ s7.adv = 1 /\ JuegoAbierto(st, s7)
                    /\ JuegoAbierto(st, Jugar(s7, <<2, 2, 1, 1, 2>>))
                    /\ JuegoGanado(st, Jugar(s7, <<2, 1, 1>>), 1)
                    /\ JuegoGanado(st, Jugar(s7, <<2, 2, 2>>), 2)
                    /\ JuegoGanado(st, Jugar(st, <<1, 1, 1, 1>>), 1)]_vars

\* Deuce under Advantage with the advantage held by team 2.
C6_Witness ==
    /\ st.modo_deuce = "Advantage"
    /\ ~st.in_tb
    /\ st.pts = <<3, 3>>
    /\ st.adv = 2
    /\ st.games # <<0, 0>>

\* ------------------------------------------------------------------ C7
\* C7: under Golden nobody ever holds the advantage, and at 3-3 the next
\* accepted point wins the game for its scorer.
C7_Golden ==
    [][st.modo_deuce = "Golden" =>
          /\ st.adv = 0
          /\ st'.adv = 0
          /\ ~st.in_tb /\ st.pts = <<3, 3>> =>
                \A f \in FormulariosPartido :
                    Acepta(f) => JuegoGanado(st, st', Ganador(f))]_vars

\* 3-3 under Golden, in a game that is not the first of the match.
C7_Witness ==
    /\ st.modo_deuce = "Golden"
    /\ ~st.in_tb
    /\ st.pts = <<3, 3>>
    /\ st.games # <<0, 0>>
    /\ formulario_visible(st)

\* ------------------------------------------------------------------ C8
\* C8: under Star Point, a point at 3-3 with no advantage and golden mode off
\* gives its scorer the advantage and adds one to star_adv_count; the point
\* that equalizes clears the advantage and keeps the counter; the second
\* advantage of the game sets star_golden_active; the counter and the flag
\* are cleared only by a step that ends the game.
C8_StarPoint ==
    [][st.modo_deuce = "Star Point" =>
          /\ st'.star_golden_active <=> st'.star_adv_count >= 2
          /\ (\/ st'.star_adv_count < st.star_adv_count
              \/ st.star_golden_active /\ ~st'.star_golden_active)
                 => \/ \E f \in FormulariosPartido :
                          Acepta(f) /\ JuegoGanado(st, st', Ganador(f))
                    \/ st' = inicio_script(reset_punto(reset_match(st)))
          /\ ~st.in_tb /\ st.pts = <<3, 3>> /\ st.adv = 0 /\ st.star_adv_count = 0 =>
                LET s3 == Jugar(st, <<1, 2, 2>>)
                IN  /\ ~Jugar(st, <<1, 2>>).star_golden_active
                    /\ s3.star_golden_active
                    /\ s3.star_adv_count = 2
                    /\ s3.adv = 2
                    /\ JuegoAbierto(st, s3)
          /\ ~st.in_tb /\ st.pts = <<3, 3>> =>
                \A f \in FormulariosPartido :
                    Acepta(f) =>
                        LET i == Ganador(f)
                        IN  /\ st.adv = 0 /\ ~st.star_golden_active =>
                                 /\ st'.adv = i
                                 /\ st'.star_adv_count = st.star_adv_count + 1
                                 /\ st'.pts = st.pts
                                 /\ JuegoAbierto(st, st')
                            /\ st.adv = 3 - i =>
                                 /\ st'.adv = 0
                                 /\ st'.star_adv_count = st.star_adv_count
                                 /\ st'.star_golden_active = st.star_golden_active
                                 /\ st'.pts = st.pts
                                 /\ JuegoAbierto(st, st')]_vars

\* Back at deuce after the second advantage of the game: golden mode is on.
C8_Witness ==
    /\ st.modo_deuce = "Star Point"
    /\ st.pts = <<3, 3>>
    /\ st.adv = 0
    /\ st.star_adv_count = 2
    /\ st.star_golden_active

\* ------------------------------------------------------------------ C9
\* C9: at a Star Point golden point (golden mode on, 3-3, no advantage) every
\* submission is rejected while no golden receiver is selected, and the point
\* that is accepted wins the game for its scorer.
C9_StarGolden ==
    [][is_star_golden_now(inicio_script(st)) =>
          \A f \in FormulariosPartido :
              /\ st.golden_receiver = "" =>
                    /\ registrar_evento(inicio_script(st), log, f).msg # "ok"
                    /\ GuardarPunto(f) => (st' = st /\ log' = log)
              /\ Acepta(f) =>
                    /\ st.golden_receiver # ""
                    /\ JuegoGanado(st, st', Ganador(f))]_vars

\* A golden point with its receiver selected and the save button on the page.
C9_Witness ==
    /\ is_star_golden_now(st)
    /\ st.golden_receiver # ""
    /\ formulario_visible(st)
    /\ Len(log) < MaxLog

\* ----------------------------------------------------------------- C10
\* C10: an accepted point lowers no team's sets and raises the total of sets
\* by at most one.
C10_SetsMonotone ==
    [][\A f \in FormulariosPartido :
          Acepta(f) =>
              /\ st'.sets[1] >= st.sets[1]
              /\ st'.sets[2] >= st.sets[2]
              /\ st'.sets[1] + st'.sets[2] <= st.sets[1] + st.sets[2] + 1]_vars

\* A second set has been won: both teams hold one set.
C10_Witness ==
    /\ st.sets = <<1, 1>>
    /\ log # <<>>
    /\ log[Len(log)].base.Set = 3

\* ----------------------------------------------------------------- C11
\* The last event of the sheet.
UltimoEvento == log[Len(log)]

\* C11 as stated: an accepted point lowers no team's games.
C11_GamesMonotone ==
    [][\A f \in FormulariosPartido :
          Acepta(f) =>
              /\ st'.games[1] >= st.games[1]
              /\ st'.games[2] >= st.games[2]]_vars

\* C11 amended: within a set an accepted point lowers no team's games and
\* raises the total of games by at most one; the games go down only on the
\* point that wins a set, which takes both teams' games to 0-0.
C11_GamesMonotoneInSet ==
    [][\A f \in FormulariosPartido :
          Acepta(f) =>
              IF st'.sets # st.sets
              THEN st'.games = <<0, 0>>
              ELSE /\ st'.games[1] >= st.games[1]
                   /\ st'.games[2] >= st.games[2]
                   /\ st'.games[1] + st'.games[2]
                          <= st.games[1] + st.games[2] + 1]_vars

\* The first set has just been won: the sheet ends with the event of the
\* point that won it, and the games stand at 0-0.
C11_Witness ==
    /\ st.sets[1] + st.sets[2] = 1
    /\ st.games = <<0, 0>>
    /\ log # <<>>
    /\ UltimoEvento.base.Set = 2
    /\ UltimoEvento.base.Games_Eq1 = 0
    /\ UltimoEvento.base.Games_Eq2 = 0

\* ----------------------------------------------------------------- C12
\* C12: an accepted point outside a tie-break leaves the points at 0-0 exactly
\* when it wins a game (the games or the sets change), and then the advantage
\* and the Star Point state of the game are cleared as well; any other
\* accepted point leaves the points as they were or adds one to its scorer's.
C12_PointsResetIffGame ==
    [][~st.in_tb =>
          \A f \in FormulariosPartido :
              Acepta(f) =>
                  LET i == Ganador(f)
                      ganado == st'.games # st.games \/ st'.sets # st.sets
                  IN  /\ (st'.pts = <<0, 0>>) <=> ganado
                      /\ ganado => /\ JuegoGanado(st, st', i)
                                   /\ st'.star_adv_count = 0
                                   /\ ~st'.star_golden_active
                                   /\ st'.golden_receiver = ""
                      /\ ~ganado => \/ st'.pts = st.pts
                                    \/ st'.pts = [st.pts EXCEPT ![i] = @ + 1]]_vars

\* A game has just been won: the sheet ends with the event of the point that
\* won it (points back at 0-0 under the games as they stand).
C12_Witness ==
    /\ ~st.in_tb
    /\ st.pts = <<0, 0>>
    /\ st.games[1] + st.games[2] >= 2
    /\ log # <<>>
    /\ UltimoEvento.base.Games_Eq1 = st.games[1]
    /\ UltimoEvento.base.Games_Eq2 = st.games[2]
    /\ UltimoEvento.base.Pts_Eq1 = "0"
    /\ UltimoEvento.base.Pts_Eq2 = "0"

\* ----------------------------------------------------------------- C13
\* The sheet ends with the event of the point that closed game n of the set
\* in progress, and no point has been played since.
CierraJuego(n) ==
    /\ log # <<>>
    /\ ~st.in_tb
    /\ st.pts = <<0, 0>>
    /\ st.adv = 0
    /\ st.games[1] + st.games[2] = n
    /\ UltimoEvento.base.Set = set_actual(st)
    /\ UltimoEvento.base.Games_Eq1 = st.games[1]
    /\ UltimoEvento.base.Games_Eq2 = st.games[2]
    /\ UltimoEvento.base.Pts_Eq1 = "0"
    /\ UltimoEvento.base.Pts_Eq2 = "0"

\* C13: a complete rotation order is [server of game 1, server of game 2,
\* partner of the first, partner of the second], with the teams alternating:
\* the player recorded as server of the point that closed game 1 (game 2) of
\* the set holds slot 1 (slot 2) of the order.
C13_RotationOrder ==
    st.server_order # <<>> =>
        LET o == st.server_order
        IN  /\ Len(o) = 4
            /\ o[3] = companero(o[1])
            /\ o[4] = companero(o[2])
            /\ equipo_de(o[2]) = opuesto(equipo_de(o[1]))
            /\ equipo_de(o[1]) = 1 =>
                   o = <<o[1], o[2], companero(o[1]), companero(o[2])>>
            /\ \A n \in {1, 2} : CierraJuego(n) => UltimoEvento.punto.Saca = o[n]

\* ----------------------------------------------------------------- C14
\* The step is "Reset partido".
EsResetPartido == st' = inicio_script(reset_punto(reset_match(st)))

\* C14: with a complete rotation order, an accepted point that completes a
\* game without ending the set or starting a tie-break moves server_index on
\* by one modulo 4 and makes the player at that slot the current server;
\* a point that completes no game leaves index and server alone; the order
\* changes on no step but the one that ends the set or abandons the match.
C14_AdvanceGame ==
    [][st.server_order # <<>> /\ ~st.in_tb =>
          /\ st'.server_order = st.server_order
                 \/ st'.sets # st.sets
                 \/ EsResetPartido
          /\ \A f \in FormulariosPartido :
                Acepta(f) =>
                    IF st'.games # st.games /\ st'.sets = st.sets /\ ~st'.in_tb
                    THEN /\ st'.server_index = (st.server_index + 1) % 4
                         /\ st'.current_server =
                                st.server_order[st'.server_index + 1]
                         /\ st'.server_team = equipo_de(st'.current_server)
                         /\ st'.server_order = st.server_order
                    ELSE st'.games = st.games =>
                         /\ st'.server_index = st.server_index
                         /\ st'.current_server = st.current_server
                         /\ st'.server_order = st.server_order]_vars

\* The rotation has gone round once: the fifth game of the set is about to be
\* served from slot 0 again.
C14_Witness ==
    /\ st.server_order # <<>>
    /\ st.server_index = 0
    /\ CierraJuego(4)
    /\ st.current_server = st.server_order[1]

\* ----------------------------------------------------------------- C15
\* C15: in a set in which a game has been completed while the rotation order
\* is still incomplete and the other team's first-server pick is outstanding,
\* the pending condition stands, there is no current server, the rotation has
\* not advanced and every point submission is rejected.
C15_PendingPickBlocks ==
    (/\ ~st.in_tb
     /\ ~st.match_over
     /\ st.games # <<0, 0>>
     /\ st.server_order = <<>>
     /\ st.pending_other_team_pick \in {1, 2})
        => /\ st.need_other_team_pick_now
           /\ st.current_server = ""
           /\ st.server_index = 0
           /\ \A f \in FormulariosPartido :
                 registrar_evento(inicio_script(st), log, f).msg # "ok"

\* ----------------------------------------------------------------- C16
\* The start of a match with a server picked and an empty sheet.
InicioConSacador ==
    /\ st.sets = <<0, 0>>
    /\ st.games = <<0, 0>>
    /\ st.pts = <<0, 0>>
    /\ st.current_server # ""
    /\ log = <<>>

\* C16: a submission that registrar_evento rejects (match over, no server, no
\* golden receiver, a missing or contradictory field of the form) leaves the
\* session and the sheet exactly as the run of the script found them; at the
\* start of a match this is checked for every form.
C16_RejectionNoChange ==
    LET s == inicio_script(st)
        sinCambio(f) == LET r == registrar_evento(s, log, f)
                        IN  r.msg # "ok" => r.st = s /\ r.log = log
    IN  /\ \A f \in FormulariosPartido : sinCambio(f)
        /\ InicioConSacador => \A f \in Formularios : sinCambio(f)

\* A golden point of Star Point with the receiver selected: the empty form is
\* rejected there, and the receiver must survive the rejection.
C16_Witness ==
    /\ is_star_golden_now(st)
    /\ st.golden_receiver # ""
    /\ formulario_visible(st)
    /\ registrar_evento(inicio_script(st), log, FormularioVacio).msg # "ok"
    /\ st.games # <<0, 0>>

\* ----------------------------------------------------------------- C17
\* C17: a change of the configuration (scoring mode at 40-40 or match format)
\* leaves the session as the start of a match under the new configuration:
\* score, tie-break, Star Point and server-rotation state are reset.
C17_ConfigChangeResets ==
    [][\A modo \in MODOS, formato \in FORMATOS :
          (/\ CambiarConfiguracion(modo, formato)
           /\ st.pts # <<0, 0>> \/ st.games # <<0, 0>> \/ st.sets # <<0, 0>>)
              => st' = SesionInicial(modo, formato)]_vars

\* ----------------------------------------------------------------- C18
\* The score, tie-break, Star Point and match-over fields of a session.
EstadoPartido(s) ==
    [sets |-> s.sets, games |-> s.games, pts |-> s.pts, adv |-> s.adv,
     in_tb |-> s.in_tb, tb_tipo |-> s.tb_tipo, tb_target |-> s.tb_target,
     tb_pts |-> s.tb_pts, star_adv_count |-> s.star_adv_count,
     star_golden_active |-> s.star_golden_active, match_over |-> s.match_over]

\* The winning teams of the events of sheet l, in order.
Ganadores(l) == [k \in 1..Len(l) |-> l[k].punto.EquipoGanadorPunto]

\* C18: replaying the winners of all the events of the sheet, in order,
\* through actualizar_marcador from the start of a match under the session's
\* configuration gives the score state of the session.
C18_ReplayLog ==
    EstadoPartido(Jugar(SesionInicial(st.modo_deuce, st.formato_partido),
                        Ganadores(log)))
        = EstadoPartido(st)

DobleFalta == [FormularioVacio EXCEPT !.saque_estado = "Doble falta"]

\* C20: with a server (and, at a golden point, a receiver) the double-fault
\* form with no other field is accepted; every accepted double fault, whatever
\* else its form held, is recorded as an unforced error on the serve with the
\* current server as actor and no provoker, assist or assistant, and the
\* point goes to the team opposing the server.
C20_DoubleFault ==
    [][LET s == inicio_script(st)
           contra == opuesto(equipo_de(s.current_server))
       IN  /\ (/\ ~s.match_over
                /\ s.current_server # ""
                /\ ~(is_star_golden_now(s) /\ s.golden_receiver = ""))
                  => registrar_evento(s, log, DobleFalta).msg = "ok"
           /\ (/\ Len(log') = Len(log) + 1
                /\ log'[Len(log')].punto.SaqueEstado = "Doble falta")
                  => LET e == log'[Len(log')].punto
                     IN  /\ e.Resultado = "Error no forzado"
                         /\ e.Golpe = "Saque"
                         /\ e.Saca = s.current_server
                         /\ e.JugadorActor = s.current_server
                         /\ e.JugadorProvocador = ""
                         /\ e.Asistencia = ""
                         /\ e.Asistente = ""
                         /\ e.EquipoGanadorPunto = contra
                         /\ contra \in {1, 2}
                         /\ EstadoPartido(st')
                                = EstadoPartido(actualizar_marcador(s, contra))]_vars

\* Jugador4 has served a double fault at 0-0: 15-0 for team 1.
C20_Witness ==
    /\ log # <<>>
    /\ UltimoEvento.punto.SaqueEstado = "Doble falta"
    /\ UltimoEvento.punto.Saca = "Jugador4"
    /\ UltimoEvento.base.Pts_Eq1 = "15"
    /\ st.pts = <<1, 0>>

\* ----------------------------------------------------------------- C21
\* Winners and unforced errors off the serve, with every actor the form can
\* name and with the other player fields empty or left filled.
FormulariosDeSaque ==
    {[FormularioVacio EXCEPT !.resultado = r, !.golpe = "Saque", !.actor = a,
                             !.provocador = x, !.asistencia = y,
                             !.asistente = x] :
        r \in {"Winner", "Error no forzado"}, a \in jugadores \cup {""},
        x \in {"", "Jugador3"}, y \in {"", "Sí"}}

\* The server has a say, and the golden receiver where one is asked for.
PuntoJugable(s) ==
    /\ ~s.match_over
    /\ s.current_server # ""
    /\ ~(is_star_golden_now(s) /\ s.golden_receiver = "")

\* C21: a winner or an unforced error whose shot is the serve is accepted
\* whatever actor the form names, and the event recorded for it has the
\* current server as actor, no provoker, no assist and no assistant; the point
\* goes to the server's team for a winner and to the other team for an
\* unforced error. The same holds of the last event of the sheet, whatever
\* form it was saved from.
C21_ServeActor ==
    LET s == inicio_script(st)
        deSaque(e) == /\ e.SaqueEstado # "Doble falta"
                      /\ e.Golpe = "Saque"
                      /\ e.Resultado \in {"Winner", "Error no forzado"}
        bien(e, saca) ==
            LET gana == IF e.Resultado = "Winner"
                        THEN equipo_de(saca) ELSE opuesto(equipo_de(saca))
            IN  /\ e.Saca = saca
                /\ e.JugadorActor = saca
                /\ e.JugadorProvocador = ""
                /\ e.Asistencia = ""
                /\ e.Asistente = ""
                /\ e.EquipoGanadorPunto = gana
                /\ gana \in {1, 2}
    IN  /\ PuntoJugable(s) =>
               \A f \in FormulariosDeSaque :
                   LET r == registrar_evento(s, <<>>, f)
                   IN  /\ r.msg = "ok"
                       /\ Len(r.log) = 1
                       /\ deSaque(r.log[1].punto)
                       /\ r.log[1].punto.Resultado = f.resultado
                       /\ bien(r.log[1].punto, s.current_server)
                       /\ EstadoPartido(r.st) = EstadoPartido(
                              actualizar_marcador(
                                  s, r.log[1].punto.EquipoGanadorPunto))
        /\ (log # <<>> /\ deSaque(UltimoEvento.punto))
               => bien(UltimoEvento.punto, UltimoEvento.punto.Saca)

\* Jugador3 has made an unforced error on the serve at 0-0: 15-0 for team 1.
C21_Witness ==
    /\ log # <<>>
    /\ UltimoEvento.punto.Resultado = "Error no forzado"
    /\ UltimoEvento.punto.Golpe = "Saque"
    /\ UltimoEvento.punto.SaqueEstado = "Primer error"
    /\ UltimoEvento.punto.Saca = "Jugador3"
    /\ UltimoEvento.punto.JugadorActor = "Jugador3"
    /\ st.pts = <<1, 0>>

\* ----------------------------------------------------------------- C22
\* Forced and unforced errors on a shot other than the serve, with every
\* actor and every provoker the form can name.
FormulariosDeError ==
    {[FormularioVacio EXCEPT !.resultado = r, !.golpe = "Otro", !.actor = a,
                             !.provocador = x] :
        r \in {"Error forzado", "Error no forzado"},
        a \in jugadores \cup {""}, x \in jugadores \cup {""}}

\* C22: a forced error is accepted exactly when the form names an actor and
\* a provoker of different teams, and its point goes to the provoker's team,
\* which is not the actor's; an unforced error is accepted exactly when the
\* form names an actor, whatever the provoker field holds, and its point goes
\* to the team opposing the actor. The last event of the sheet, whatever form
\* it was saved from, is recorded that way too.
C22_Errors ==
    LET s == inicio_script(st)
        bien(e) ==
            /\ e.JugadorActor \in jugadores
            /\ e.Resultado = "Error forzado" =>
                   /\ e.JugadorProvocador \in jugadores
                   /\ equipo_de(e.JugadorProvocador) # equipo_de(e.JugadorActor)
                   /\ e.EquipoGanadorPunto = equipo_de(e.JugadorProvocador)
                   /\ e.EquipoGanadorPunto # equipo_de(e.JugadorActor)
            /\ e.Resultado = "Error no forzado" =>
                   /\ e.JugadorProvocador = ""
                   /\ e.EquipoGanadorPunto = opuesto(equipo_de(e.JugadorActor))
            /\ e.EquipoGanadorPunto \in {1, 2}
            /\ e.Asistencia = ""
            /\ e.Asistente = ""
    IN  /\ PuntoJugable(s) =>
               \A f \in FormulariosDeError :
                   LET r == registrar_evento(s, <<>>, f)
                       completo ==
                           /\ f.actor \in jugadores
                           /\ f.resultado = "Error forzado" =>
                                  /\ f.provocador \in jugadores
                                  /\ equipo_de(f.provocador) # equipo_de(f.actor)
                   IN  /\ (r.msg = "ok") <=> completo
                       /\ r.msg = "ok" =>
                              /\ Len(r.log) = 1
                              /\ r.log[1].punto.Resultado = f.resultado
                              /\ r.log[1].punto.JugadorActor = f.actor
                              /\ bien(r.log[1].punto)
                              /\ EstadoPartido(r.st) = EstadoPartido(
                                     actualizar_marcador(
                                         s, r.log[1].punto.EquipoGanadorPunto))
        /\ (/\ log # <<>>
             /\ UltimoEvento.punto.Resultado
                    \in {"Error forzado", "Error no forzado"})
               => bien(UltimoEvento.punto)

\* Jugador4 has forced an error of Jugador1 at 0-0: 0-15.
C22_Witness ==
    /\ log # <<>>
    /\ UltimoEvento.punto.Resultado = "Error forzado"
    /\ UltimoEvento.punto.JugadorActor = "Jugador1"
    /\ UltimoEvento.punto.JugadorProvocador = "Jugador4"
    /\ UltimoEvento.punto.EquipoGanadorPunto = 2
    /\ st.pts = <<0, 1>>

\* ----------------------------------------------------------------- C23
\* Winners on a shot other than the serve, with every actor, every answer to
\* "Asistencia" (none included) and every assistant the form can name.
FormulariosDeWinner ==
    {[FormularioVacio EXCEPT !.resultado = "Winner", !.golpe = "Otro",
                             !.actor = a, !.asistencia = y, !.asistente = x] :
        a \in jugadores \cup {""}, y \in {"", "Sí", "No"},
        x \in jugadores \cup {""}}

\* C23: a winner on a shot other than the serve is rejected without an actor
\* and goes to the actor's team; with an actor and no assist (the assist field
\* empty or "No") it is accepted; with an assist it is accepted exactly when
\* the assistant is another player of the actor's team.
C23_WinnerAssistOptional ==
    LET s == inicio_script(st)
    IN  PuntoJugable(s) =>
            \A f \in FormulariosDeWinner :
                LET r == registrar_evento(s, <<>>, f)
                    aceptable ==
                        /\ f.actor \in jugadores
                        /\ f.asistencia = "Sí" =>
                               /\ f.asistente \in jugadores
                               /\ f.asistente # f.actor
                               /\ equipo_de(f.asistente) = equipo_de(f.actor)
                IN  /\ (r.msg = "ok") <=> aceptable
                    /\ r.msg = "ok" =>
                           /\ r.log[1].punto.JugadorActor = f.actor
                           /\ r.log[1].punto.EquipoGanadorPunto
                                  = equipo_de(f.actor)

\* ----------------------------------------------------------------- C24
\* C24: while a set tie-break is on, its server order is the complete 4-slot
\* rotation order of the set and its starting offset is one past the rotation
\* index the set reached, so that the first point of the tie-break is served
\* by the player who would have served the next game.
C24_SetTbRotation ==
    (st.in_tb /\ st.tb_tipo = "SET") =>
        /\ Len(st.server_order) = 4
        /\ st.tb_rotation = st.server_order
        /\ st.tb_start_idx = (st.server_index + 1) % 4
        /\ st.tb_pts = <<0, 0>> =>
               inicio_script(st).current_server
                   = st.server_order[((st.server_index + 1) % 4) + 1]

\* ----------------------------------------------------------------- C25
\* The slot of the super tie-break order that serves the point with index n.
SlotSuperTb(n) == IF n = 0 THEN 0 ELSE (1 + ((n - 1) \div 2)) % 4

\* The sheet ends with the event of the last point played in the tie-break in
\* progress (the event shows the tie-break score the point left).
UltimoPuntoTb ==
    /\ log # <<>>
    /\ st.in_tb
    /\ st.tb_pts # <<0, 0>>
    /\ UltimoEvento.base.TieBreak
    /\ UltimoEvento.base.TB_Tipo = st.tb_tipo
    /\ UltimoEvento.base.Set = set_actual(st)
    /\ UltimoEvento.base.Pts_Eq1 = ToString(st.tb_pts[1])
    /\ UltimoEvento.base.Pts_Eq2 = ToString(st.tb_pts[2])

\* C25: in a super tie-break the first point is served by the first pick;
\* with both picks made the order is [first, second, partner of first,
\* partner of second], the second pick being of the team opposing the first,
\* and the point with index n is served by slot 0 if n = 0 and by slot
\* (1 + (n-1) div 2) mod 4 otherwise: the point about to be played and the
\* point just recorded have that server, from point 1 on every server serves
\* two points in a row, and the serving team alternates at each change.
C25_SuperTbOrder ==
    (st.in_tb /\ st.tb_tipo = "SUPER" /\ st.super_tb_first # "") =>
        LET s == inicio_script(st)
            n == st.tb_pts[1] + st.tb_pts[2]
            first == st.super_tb_first
            second == st.super_tb_second
            o == st.tb_rotation
            saca(k) == tb_server_for_point(k, o, st.tb_start_idx)
        IN  /\ n = 0 => s.current_server = first /\ second = ""
            /\ (n = 1 /\ UltimoPuntoTb) => UltimoEvento.punto.Saca = first
            /\ second # "" =>
                   /\ o = <<first, second, companero(first), companero(second)>>
                   /\ equipo_de(second) = opuesto(equipo_de(first))
                   /\ equipo_de(first) \in {1, 2}
                   /\ s.current_server = o[SlotSuperTb(n) + 1]
                   /\ s.server_team = equipo_de(s.current_server)
                   /\ UltimoPuntoTb =>
                          UltimoEvento.punto.Saca = o[SlotSuperTb(n - 1) + 1]
                   /\ \A k \in 0..MaxTbPuntos :
                          /\ saca(k) = o[SlotSuperTb(k) + 1]
                          /\ k % 2 = 1 =>
                                 /\ saca(k + 1) = saca(k)
                                 /\ saca(k + 2) # saca(k)
                                 /\ equipo_de(saca(k + 2))
                                        = opuesto(equipo_de(saca(k)))
                          /\ equipo_de(saca(1)) = opuesto(equipo_de(saca(0)))

\* Four points into a super tie-break: the last one was served by the partner
\* of the first server, the third player of the order.
C25_Witness ==
    /\ st.in_tb
    /\ st.tb_tipo = "SUPER"
    /\ st.super_tb_second # ""
    /\ st.tb_pts[1] + st.tb_pts[2] = 4
    /\ UltimoPuntoTb
    /\ UltimoEvento.punto.Saca = companero(st.super_tb_first)

\* ----------------------------------------------------------------- C26
\* C26: in a super tie-break no submission is accepted at point index 0 while
\* the first server is not chosen, nor at an index of 1 or more while the
\* second server is not chosen; so a super tie-break with a point played has
\* its first server, one with two points played has its second server, and
\* the second server is of the team opposing the first.
C26_SuperTbPicks ==
    (st.in_tb /\ st.tb_tipo = "SUPER") =>
        LET s == inicio_script(st)
            n == st.tb_pts[1] + st.tb_pts[2]
            first == st.super_tb_first
            second == st.super_tb_second
            falta == (n = 0 /\ first = "") \/ (n >= 1 /\ second = "")
        IN  /\ falta =>
                   \A f \in FormulariosPartido :
                       ~(/\ formulario_visible(s)
                         /\ registrar_evento(s, log, f).msg = "ok")
            /\ n >= 1 => first # ""
            /\ n >= 2 => second # ""
            /\ second # "" =>
                   /\ first # ""
                   /\ equipo_de(second) \in {1, 2}
                   /\ equipo_de(second) = opuesto(equipo_de(first))

\* One point into a super tie-break, second server not chosen yet: the first
\* server is still the current server, and only the picker holds the form back.
C26_Witness ==
    /\ st.in_tb
    /\ st.tb_tipo = "SUPER"
    /\ st.tb_pts[1] + st.tb_pts[2] = 1
    /\ st.super_tb_first # ""
    /\ st.super_tb_second = ""
    /\ validar_punto(inicio_script(st), DobleFalta) = ""
    /\ ~formulario_visible(inicio_script(st))

\* ----------------------------------------------------------------- C27
\* C27: in every reachable state one of the two point scores is live: in a
\* tie-break the ordinary points are 0-0 and nobody holds the advantage;
\* outside one the tie-break points are 0-0, the tie-break has no kind and its
\* target is 0; a set tie-break (target 7) is on only at 6-6 in games, a super
\* tie-break (target 11) only at 1-1 in sets and 0-0 in games.
C27_OneScoreLive ==
    /\ st.in_tb =>
           /\ st.pts = <<0, 0>>
           /\ st.adv = 0
           /\ st.tb_tipo \in {"SET", "SUPER"}
    /\ ~st.in_tb =>
           /\ st.tb_pts = <<0, 0>>
           /\ st.tb_tipo = ""
           /\ st.tb_target = 0
    /\ (st.in_tb /\ st.tb_tipo = "SET") =>
           /\ st.games = <<GAMES_SET, GAMES_SET>>
           /\ st.tb_target = TB_TARGET_SET
    /\ (st.in_tb /\ st.tb_tipo = "SUPER") =>
           /\ st.sets = <<1, 1>>
           /\ st.games = <<0, 0>>
           /\ st.tb_target = TB_TARGET_SUPER

\* A super tie-break in progress at 1-1 in sets, both teams with points in it.
C27_Witness ==
    /\ st.in_tb
    /\ st.tb_tipo = "SUPER"
    /\ st.tb_pts[1] > 0
    /\ st.tb_pts[2] > 0
    /\ st.pts = <<0, 0>>
    /\ st.sets = <<1, 1>>

\* ----------------------------------------------------------------- C28
\* C28: under every deuce policy each team's ordinary points stay within 0..3
\* (0/15/30/40) in every reachable state: for a team at 40 against less than
\* 40 the next point wins the game instead of making a fifth value; and a team
\* holds the advantage only at 3-3 outside a tie-break.
C28_PointsInRange ==
    /\ st.pts[1] \in 0..3
    /\ st.pts[2] \in 0..3
    /\ st.adv \in {0, 1, 2}
    /\ st.adv # 0 => st.pts = <<3, 3>> /\ ~st.in_tb
    /\ \A i \in {1, 2} :
           (/\ ~st.in_tb
            /\ ~st.match_over
            /\ st.pts[i] = 3
            /\ st.pts[3 - i] < 3)
               => JuegoGanado(st, actualizar_marcador(st, i), i)

\* Deuce under Star Point with the advantage held for the second time in the
\* game, in a game that is not the first of the set.
C28_Witness ==
    /\ st.modo_deuce = "Star Point"
    /\ st.pts = <<3, 3>>
    /\ st.adv = 1
    /\ st.star_adv_count = 2
    /\ st.games # <<0, 0>>

\* ----------------------------------------------------------------- C29
\* Game 1 of the set has ended in session s with the rotation order still
\* incomplete: the other team's first server is asked for.
FinDeGame1(s) ==
    /\ ~s.in_tb
    /\ ~s.match_over
    /\ s.games[1] + s.games[2] = 1
    /\ s.server_order = <<>>
    /\ s.pending_other_team_pick \in {1, 2}
    /\ s.need_other_team_pick_now
    /\ s.current_server = ""

\* C29: after game 1 of a set has ended with the rotation incomplete, a step
\* that makes a player the current server makes a player of the team that did
\* not serve game 1 the server, and leaves the recorded first server of the
\* set as it was.
C29_OnlyOtherTeamPick ==
    [][(FinDeGame1(st) /\ st'.current_server # "") =>
          /\ equipo_de(st'.current_server) = st.pending_other_team_pick
          /\ equipo_de(st'.current_server)
                 # equipo_de(st.first_server_of_set)
          /\ st'.first_server_of_set = st.first_server_of_set]_vars

\* ----------------------------------------------------------------- C30
\* C30: outside a tie-break, a step that records a point without completing a
\* game (games and sets as before) leaves the current server and its team,
\* the rotation order, the rotation index, both teams' first servers, the
\* first server of the set and the pending pick as they were.
C30_ServerFixedInGame ==
    [][(/\ ~st.in_tb
        /\ Len(log') = Len(log) + 1
        /\ st'.games = st.games
        /\ st'.sets = st.sets)
          => /\ st'.current_server = st.current_server
             /\ st'.current_server = log'[Len(log')].punto.Saca
             /\ st'.server_team = st.server_team
             /\ st'.server_order = st.server_order
             /\ st'.server_index = st.server_index
             /\ st'.team_first_server = st.team_first_server
             /\ st'.first_server_of_set = st.first_server_of_set
             /\ st'.pending_other_team_pick = st.pending_other_team_pick
             /\ st'.need_other_team_pick_now = st.need_other_team_pick_now]_vars

\* The second point of game 3 has just been recorded: the third player of a
\* complete rotation order served it and is still the server.
C30_Witness ==
    /\ ~st.in_tb
    /\ st.server_order # <<>>
    /\ st.server_index = 2
    /\ st.games[1] + st.games[2] = 2
    /\ st.pts = <<1, 1>>
    /\ log # <<>>
    /\ UltimoEvento.base.Pts_Eq1 = "15"
    /\ UltimoEvento.base.Pts_Eq2 = "15"
    /\ UltimoEvento.punto.Saca = st.current_server
    /\ st.current_server = st.server_order[3]

\* ----------------------------------------------------------------- C31
\* C31: the event of a point accepted at a golden point of Star Point carries
\* the golden receiver that was selected for the point, and the event of any
\* other point carries an empty golden receiver.
C31_GoldenReceiverLogged ==
    [][Len(log') = Len(log) + 1 =>
          LET s == inicio_script(st)
              e == log'[Len(log')]
          IN  IF is_star_golden_now(s)
              THEN /\ e.GoldenReceiver = s.golden_receiver
                   /\ e.GoldenReceiver # ""
              ELSE e.GoldenReceiver = ""]_vars

\* ----------------------------------------------------------------- C32
\* C32: the event of a point carries the number of the set the point was
\* played in and the tie-break flag and kind of the state it was played in
\* (the state its recorded server is taken from): a point played in a
\* tie-break is logged as a tie-break point of that kind, a point of an
\* ordinary game as none, and the point that wins a set under the number of
\* that set.
C32_EventDescribesPointState ==
    [][Len(log') = Len(log) + 1 =>
          LET s == inicio_script(st)
              e == log'[Len(log')]
          IN  /\ e.punto.Saca = s.current_server
              /\ e.base.Set = set_actual(s)
              /\ e.base.TieBreak = s.in_tb
              /\ e.base.TB_Tipo = (IF s.in_tb THEN s.tb_tipo ELSE "")]_vars

\* ----------------------------------------------------------------- C33
\* C33: a tie-break in progress is never already won, and when the point of
\* team i meets the win condition (target reached, lead of two) team i holds
\* strictly more tie-break points than the other team and is the team that
\* gets the set: the other team's sets stay as they were.
C33_TbWinnerLeads ==
    (st.in_tb /\ ~st.match_over) =>
        /\ ~TbGanado(st.tb_pts, st.tb_target)
        /\ \A i \in {1, 2} :
               LET tras == TbTras(st.tb_pts, i)
                   b == actualizar_marcador(inicio_script(st), i)
               IN  TbGanado(tras, st.tb_target) =>
                       /\ tras[i] > tras[3 - i]
                       /\ ~b.in_tb
                       /\ b.sets[i] = st.sets[i] + 1
                       /\ b.sets[3 - i] = st.sets[3 - i]

\* A super tie-break at 10-9 with the form on the page: the next point of
\* team 1 wins it, and the match with it.
C33_Witness ==
    /\ st.in_tb
    /\ st.tb_tipo = "SUPER"
    /\ st.tb_pts = <<10, 9>>
    /\ formulario_visible(inicio_script(st))
    /\ actualizar_marcador(inicio_script(st), 1).match_over
    /\ actualizar_marcador(inicio_script(st), 1).sets = <<2, 1>>

\* ----------------------------------------------------------------- C34
\* A selection of a server or of a golden receiver in one of the pickers.
Seleccion ==
    \/ \E p \in jugadores : ElegirSacadorGame1(p)
    \/ \E p \in jugadores : ElegirSacadorGame2(p)
    \/ \E p \in jugadores : ElegirSuperTbFirst(p)
    \/ \E p \in jugadores : ElegirSuperTbSecond(p)
    \/ \E p \in jugadores : ElegirReceptorGolden(p)

\* The save button is on the page and a double fault would be accepted.
PuntoAceptable ==
    LET s == inicio_script(st)
    IN  /\ formulario_visible(s)
        /\ registrar_evento(s, log, DobleFalta).msg = "ok"

\* C34: in every reachable state of a match that is not over, a point can be
\* submitted and accepted or a picker offers a selection; in particular a set
\* tie-break in progress has a server rotation.
C34_NoDeadlock ==
    /\ ~st.match_over => (PuntoAceptable \/ ENABLED Seleccion)
    /\ (st.in_tb /\ st.tb_tipo = "SET") => st.tb_rotation # <<>>

\* ----------------------------------------------------------------- C35
\* The points played in the game of session s since it reached 3-3, as the
\* Star Point state tells them: advantage, deuce, advantage, deuce.
PuntosDesdeIguales(s) ==
    IF s.star_adv_count = 0 THEN 0
    ELSE IF s.star_adv_count = 1 THEN (IF s.adv # 0 THEN 1 ELSE 2)
    ELSE (IF s.adv # 0 THEN 3 ELSE 4)

\* The game in progress is over after the points of the teams in seq.
DecididoTras(seq) ==
    LET b == Jugar(st, seq)
    IN  b.games # st.games \/ b.sets # st.sets

\* C35: under Star Point the advantage counter stays within 0..2, golden mode
\* is on only with the counter at 2, and a game at 3-3 is over after at most
\* five points from the moment it reached 3-3, whoever wins them: from a state
\* k points after that moment any 5 - k points end the game, and some
\* 4 - k points do not.
C35_StarBounded ==
    st.modo_deuce = "Star Point" =>
        /\ st.star_adv_count \in 0..2
        /\ st.star_golden_active => st.star_adv_count >= 2
        /\ (~st.in_tb /\ ~st.match_over /\ st.pts = <<3, 3>>) =>
               LET n == 5 - PuntosDesdeIguales(st)
               IN  /\ n \in 1..5
                   /\ \A seq \in [1..n -> {1, 2}] : DecididoTras(seq)
                   /\ \E seq \in [1..(n - 1) -> {1, 2}] : ~DecididoTras(seq)

\* Three points after 3-3 under Star Point: team 2 holds the second advantage
\* of the game.
C35_Witness ==
    /\ st.modo_deuce = "Star Point"
    /\ ~st.in_tb
    /\ st.pts = <<3, 3>>
    /\ st.adv = 2
    /\ st.star_adv_count = 2
    /\ st.star_golden_active
    /\ PuntosDesdeIguales(st) = 3
    /\ st.games[2] > 0

====
